---- MODULE Spec2Model ----
(***************************************************************************)
(* A model of the httpd package: the per-connection loop (conn.serve), the *)
(* request decoder, the body readers (chunked, fixed length, 100-continue),*)
(* the response writer and the multipart form decoder.                     *)
(*                                                                         *)
(* Bytes are modelled as one-character strings; CR and LF stand for '\r'   *)
(* and '\n'.  A byte stream is a sequence of bytes.  Errors are strings,   *)
(* "nil" is Go's nil error and "EOF" is io.EOF.                            *)
(***************************************************************************)
EXTENDS Integers, Sequences, FiniteSets, TLC

VARIABLES
    pc,       \* position of conn.serve: "read" | "handler" | "closed"
    req,      \* the Request of the current iteration (NoReq before the first)
    resp,     \* the response of the current iteration
    out,      \* conn.bufw and what it has put on rwc: [buf, err, wire, reply]
    inb,      \* unread bytes of the current request's body on conn.bufr
    lrN,      \* conn.lr.N
    disk,     \* temporary files that exist (os.CreateTemp / os.Remove)
    tmpSeq,   \* number of temporary files created so far
    rwcUp,    \* the peer still accepts writes on rwc
    nreq,     \* requests decoded on this connection
    steps,    \* operations the handler has done in this invocation
    hist,     \* what happened in the current iteration (see Init)
    ck,       \* chunkReader exercised alone: see SpecChunk
    dc,       \* the discardCRLF routines exercised alone: see SpecCRLF
    fx,       \* a fixed-length body read to its end: see SpecFixed
    rf        \* ReadForm and RemoveAll exercised alone: see SpecForm

connVars == <<pc, req, resp, out, inb, lrN, disk, tmpSeq, rwcUp, nreq, steps,
              hist>>
vars == <<pc, req, resp, out, inb, lrN, disk, tmpSeq, rwcUp, nreq, steps, hist,
          ck, dc, fx, rf>>

(***************************************************************************)
(* Bounds of the model.                                                    *)
(***************************************************************************)
MaxReqs == 1       \* requests decoded on one connection
MaxSteps == 2      \* operations of the handler per request
MaxBuf == 3        \* longest buffer passed to Body.Read
MaxChunks == 2     \* chunks of a chunked body, the terminal one excluded
MaxChunkLen == 3   \* payload bytes of one chunk
MaxParts == 2      \* parts of a multipart body
MaxIn == 2         \* bytes still on the stream when a delimiter is discarded

(***************************************************************************)
(* Bytes and small helpers.                                                *)
(***************************************************************************)
CR == "CR"
LF == "LF"
NUL == "NUL"       \* the zero byte of a fresh [2]byte

Min(a, b) == IF a < b THEN a ELSE b

\* F applied to the value v: the value is computed once and named by F's
\* parameter, as a local variable of the code names a call's result.
Let(v, F(_)) == F(v)

RECURSIVE Flatten(_)
Flatten(ss) == IF ss = <<>> THEN <<>> ELSE Head(ss) \o Flatten(Tail(ss))

\* The value of a hexadecimal digit: the three cases of getChunkSize.
HexVal == ("0" :> 0) @@ ("1" :> 1) @@ ("2" :> 2) @@ ("3" :> 3) @@ ("4" :> 4)
          @@ ("9" :> 9) @@ ("a" :> 10) @@ ("f" :> 15) @@ ("A" :> 10) @@ ("F" :> 15)

\* bufio.Reader.ReadLine through readLine: the bytes up to the first LF, the
\* LF and a CR before it dropped; at the end of the stream, what is left,
\* and io.EOF when nothing is left.
readLine(s) ==
    LET lfs == {i \in 1..Len(s) : s[i] = LF}
        i == IF lfs = {} THEN 0 ELSE CHOOSE j \in lfs : \A m \in lfs : j <= m
        raw == SubSeq(s, 1, i - 1)
    IN  IF s = <<>> THEN [line |-> <<>>, rest |-> <<>>, err |-> "EOF"]
        ELSE IF i = 0 THEN [line |-> s, rest |-> <<>>, err |-> "nil"]
        ELSE [line |-> IF raw # <<>> /\ raw[Len(raw)] = CR
                       THEN SubSeq(raw, 1, Len(raw) - 1) ELSE raw,
              rest |-> SubSeq(s, i + 1, Len(s)),
              err |-> "nil"]

\* bufio.Reader.Read(p) with len(p) = lenp: the bytes of at most one read of
\* the connection, so between 1 and lenp bytes; k is how many had arrived.
bufrRead(s, lenp, k) ==
    LET m == Min(Min(k, lenp), Len(s))
    IN  IF s = <<>> THEN [data |-> <<>>, rest |-> s, err |-> "EOF"]
        ELSE [data |-> SubSeq(s, 1, m), rest |-> SubSeq(s, m + 1, Len(s)),
              err |-> "nil"]

\* io.ReadFull(bufr, crlf[:]): both bytes, or what the stream still had.
ReadFull2(crlf, s) ==
    IF Len(s) >= 2
    THEN [crlf |-> <<s[1], s[2]>>, rest |-> SubSeq(s, 3, Len(s)), err |-> "nil"]
    ELSE IF Len(s) = 1
    THEN [crlf |-> <<s[1], crlf[2]>>, rest |-> <<>>, err |-> "unexpected EOF"]
    ELSE [crlf |-> crlf, rest |-> <<>>, err |-> "EOF"]

(***************************************************************************)
(* chunkReader (chunk.go).                                                 *)
(***************************************************************************)
chunkReader_discardCRLF(crlf, s) ==
    Let(ReadFull2(crlf, s), LAMBDA r :
        [crlf |-> r.crlf, rest |-> r.rest,
         err |-> IF r.err # "nil"
                 THEN IF r.crlf[1] # CR \/ r.crlf[2] # LF
                      THEN "unsupported encoding format of chunk"
                      ELSE r.err
                 ELSE "nil"])

RECURSIVE parseHex(_, _, _)
parseHex(line, i, chunkSize) ==
    IF i > Len(line) THEN [size |-> chunkSize, err |-> "nil"]
    ELSE IF line[i] \in DOMAIN HexVal
    THEN parseHex(line, i + 1, chunkSize * 16 + HexVal[line[i]])
    ELSE [size |-> 0, err |-> "illegal hex number"]

getChunkSize(s) ==
    Let(readLine(s), LAMBDA l :
        IF l.err # "nil" THEN [size |-> 0, rest |-> l.rest, err |-> l.err]
        ELSE Let(parseHex(l.line, 1, 0), LAMBDA h :
                 [size |-> h.size, rest |-> l.rest, err |-> h.err]))

NewChunkReader == [n |-> 0, done |-> FALSE, crlf |-> <<NUL, NUL>>]

\* chunkReader.Read(p), len(p) = lenp, on the stream s; k as in bufrRead.
\* g is the chunk size still to read, after getChunkSize when it was 0.
chunkReader_Read(cw, s, lenp, k) ==
    IF cw.done THEN [cw |-> cw, rest |-> s, data |-> <<>>, err |-> "EOF"]
    ELSE
    Let(IF cw.n = 0 THEN getChunkSize(s)
        ELSE [size |-> cw.n, rest |-> s, err |-> "nil"], LAMBDA g :
        IF g.err # "nil"
        THEN [cw |-> [cw EXCEPT !.n = g.size], rest |-> g.rest, data |-> <<>>,
              err |-> g.err]
        ELSE IF g.size = 0
        THEN Let(chunkReader_discardCRLF(cw.crlf, g.rest), LAMBDA d :
                 [cw |-> [n |-> 0, done |-> TRUE, crlf |-> d.crlf],
                  rest |-> d.rest, data |-> <<>>, err |-> d.err])
        ELSE IF lenp <= g.size
        THEN Let(bufrRead(g.rest, lenp, k), LAMBDA r :
                 [cw |-> [cw EXCEPT !.n = g.size - Len(r.data)],
                  rest |-> r.rest, data |-> r.data, err |-> r.err])
        ELSE Let(chunkReader_discardCRLF(cw.crlf,
                     SubSeq(g.rest, Min(g.size, Len(g.rest)) + 1, Len(g.rest))),
                 LAMBDA d :
                 [cw |-> [n |-> 0, done |-> FALSE, crlf |-> d.crlf],
                  rest |-> d.rest,
                  data |-> SubSeq(g.rest, 1, Min(g.size, Len(g.rest))),
                  err |-> d.err]))

(***************************************************************************)
(* MultipartReader.discardCRLF (chunk.go).                                 *)
(***************************************************************************)
MultipartReader_discardCRLF(crlf, s) ==
    Let(ReadFull2(crlf, s), LAMBDA r :
        [crlf |-> r.crlf, rest |-> r.rest,
         err |-> IF r.err = "nil"
                 THEN IF r.crlf[1] # CR /\ r.crlf[2] # LF
                      THEN "expect crlf" ELSE "nil"
                 ELSE r.err])

(***************************************************************************)
(* Chunked bodies as a peer frames them (spec section 6).                  *)
(***************************************************************************)
HexDigit(n) == CHOOSE d \in {"0", "1", "2", "3", "4"} : HexVal[d] = n

\* Payloads of every length up to MaxChunkLen; the bytes alternate so that
\* a lost, repeated or misplaced byte shows.
Payload(n) == [i \in 1..n |-> IF i % 2 = 1 THEN "x" ELSE "y"]
Payloads == {Payload(n) : n \in 1..MaxChunkLen}
ChunkLists == UNION {[1..n -> Payloads] : n \in 0..MaxChunks}

EncodeChunk(p) == <<HexDigit(Len(p)), CR, LF>> \o p \o <<CR, LF>>
RECURSIVE EncodeChunks(_)
EncodeChunks(cs) ==
    IF cs = <<>> THEN <<"0", CR, LF, CR, LF>>
    ELSE EncodeChunk(Head(cs)) \o EncodeChunks(Tail(cs))

(***************************************************************************)
(* Header values are sequences of tokens (<<>> is the absent or empty      *)
(* value), so that the code's parsers have something to parse.             *)
(***************************************************************************)
EmptyHeader == [x \in {} |-> <<>>]

\* Header.Get: the first value under exactly this name, or empty.
HeaderGet(h, k) == IF k \in DOMAIN h THEN h[k] ELSE <<>>

\* Header.Set: the value under this name replaced.
HeaderSet(h, k, v) == [x \in DOMAIN h \cup {k} |-> IF x = k THEN v ELSE h[x]]

DigitVal == ("0" :> 0) @@ ("1" :> 1) @@ ("2" :> 2) @@ ("3" :> 3) @@ ("4" :> 4)
            @@ ("5" :> 5) @@ ("6" :> 6) @@ ("7" :> 7) @@ ("8" :> 8) @@ ("9" :> 9)

\* The verb %d of fmt.Sscanf: the longest run of decimal digits at the front
\* of s; without one the verb fails and its operand is left alone.
RECURSIVE scanDigits(_, _, _)
scanDigits(s, n, val) ==
    IF s # <<>> /\ Head(s) \in DOMAIN DigitVal
    THEN scanDigits(Tail(s), n + 1, val * 10 + DigitVal[Head(s)])
    ELSE [ok |-> n > 0, val |-> val, rest |-> s]

\* strconv.ParseInt(cl, 10, 64): an optional sign and decimal digits only.
ParseInt(cl) ==
    LET neg == cl # <<>> /\ Head(cl) = "-"
    IN  Let(scanDigits(IF neg THEN Tail(cl) ELSE cl, 0, 0), LAMBDA d :
            IF d.ok /\ d.rest = <<>>
            THEN [val |-> IF neg THEN 0 - d.val ELSE d.val, err |-> "nil"]
            ELSE [val |-> 0, err |-> "invalid syntax"])

(***************************************************************************)
(* conn.bufw, a bufio.Writer of 4096 bytes on rwc.  An item is one piece   *)
(* of output: the status line, the header block, the blank line, a run of  *)
(* n body bytes, the interim response, the last chunk.  buf holds the      *)
(* items not yet written to rwc, err the writer's sticky error; wire and   *)
(* reply are the items of the current iteration that reached rwc and that  *)
(* the writer accepted.                                                    *)
(***************************************************************************)
bufSize == 4096

Item(k, n, h) == [k |-> k, n |-> n, h |-> h]
StatusLine(code) == Item("status", code, EmptyHeader)
HeaderBlock(h) == Item("headers", 0, h)
BlankLine == Item("blank", 0, EmptyHeader)
BodyBytes(n) == Item("body", n, EmptyHeader)
Continue100 == Item("continue", 100, EmptyHeader)
LastChunk == Item("lastchunk", 0, EmptyHeader)
ChunkSizeLine(n) == Item("chunksize", n, EmptyHeader)
ChunkEnd == Item("chunkend", 0, EmptyHeader)

NewBufw == [buf |-> <<>>, err |-> FALSE, wire |-> <<>>, reply |-> <<>>]

\* bufio.Writer.Flush: nothing to do on an empty buffer; a failed write to
\* rwc sticks.
bufw_Flush(o, up) ==
    IF o.err \/ o.buf = <<>> THEN o
    ELSE IF up THEN [o EXCEPT !.wire = @ \o o.buf, !.buf = <<>>]
    ELSE [o EXCEPT !.err = TRUE]

\* bufio.Writer.Write / WriteString of items that fit the buffer.
bufw_WriteString(o, items) ==
    IF o.err THEN o
    ELSE [o EXCEPT !.buf = @ \o items, !.reply = @ \o items]

\* bufio.Writer.Write(p) with len(p) = n.  More than two buffers of bytes
\* pass the buffer whole: what was buffered is flushed and p is written to
\* rwc.  The short writes of the model fit the buffer.
bufw_Write(o, n, up) ==
    IF o.err THEN o
    ELSE IF n > 2 * bufSize
    THEN IF up THEN [o EXCEPT !.wire = @ \o o.buf \o <<BodyBytes(n)>>,
                              !.buf = <<>>, !.reply = @ \o <<BodyBytes(n)>>]
         ELSE [o EXCEPT !.err = TRUE]
    ELSE bufw_WriteString(o, <<BodyBytes(n)>>)

(***************************************************************************)
(* Request bodies (part_002: eofReader, expectContinueReader, setupBody).  *)
(* kind is "eof", "chunk" (chunkReader cw) or "limit" (io.LimitReader, N   *)
(* bytes left); expect says the reader is wrapped in expectContinueReader. *)
(***************************************************************************)
EofBody == [kind |-> "eof", N |-> 0, cw |-> NewChunkReader, expect |-> FALSE,
            wroteContinue |-> FALSE]

\* io.LimitedReader.Read on conn.bufr.
LimitedReader_Read(b, s, lenp, k) ==
    IF b.N <= 0 THEN [body |-> b, rest |-> s, data |-> <<>>, err |-> "EOF"]
    ELSE Let(bufrRead(s, Min(lenp, b.N), k), LAMBDA r :
             [body |-> [b EXCEPT !.N = @ - Len(r.data)], rest |-> r.rest,
              data |-> r.data, err |-> r.err])

\* expectContinueReader.Read up to its call of the wrapped reader: the
\* interim response is written and flushed before the first read.
expectContinue(b, o, up) ==
    IF b.expect /\ ~b.wroteContinue
    THEN [body |-> [b EXCEPT !.wroteContinue = TRUE],
          out |-> bufw_Flush(bufw_WriteString(o, <<Continue100>>), up)]
    ELSE [body |-> b, out |-> o]

\* r.Body.Read(p): expectContinueReader.Read when the body is wrapped, then
\* chunkReader.Read, io.LimitedReader.Read or eofReader.Read.
Body_Read(b, s, lenp, k, o, up) ==
    Let(expectContinue(b, o, up), LAMBDA e :
        IF b.kind = "chunk"
        THEN Let(chunkReader_Read(e.body.cw, s, lenp, k), LAMBDA c :
                 [body |-> [e.body EXCEPT !.cw = c.cw], rest |-> c.rest,
                  data |-> c.data, err |-> c.err, out |-> e.out])
        ELSE IF b.kind = "limit"
        THEN Let(LimitedReader_Read(e.body, s, lenp, k), LAMBDA l :
                 [body |-> l.body, rest |-> l.rest, data |-> l.data,
                  err |-> l.err, out |-> e.out])
        ELSE [body |-> e.body, rest |-> s, data |-> <<>>, err |-> "EOF",
              out |-> e.out])

\* The buffer ioutil.Discard reads into.
DiscardBuf == 8192

\* io.Copy(ioutil.Discard, r.Body): Read until io.EOF (nil) or an error.
RECURSIVE DrainBody(_, _, _, _)
DrainBody(b, s, o, up) ==
    Let(Body_Read(b, s, DiscardBuf, DiscardBuf, o, up), LAMBDA r :
        IF r.err = "EOF"
        THEN [body |-> r.body, rest |-> r.rest, out |-> r.out, err |-> "nil"]
        ELSE IF r.err # "nil"
        THEN [body |-> r.body, rest |-> r.rest, out |-> r.out, err |-> r.err]
        ELSE DrainBody(r.body, r.rest, r.out, up))

(***************************************************************************)
(* Multipart forms.  The body of a multipart request is modelled one       *)
(* segment per encoded part, closed by the terminal delimiter; a segment   *)
(* is a token that names the part's Content-Disposition and size, and      *)
(* NextPart takes the next segment.  Junk is a line where NextPart wants   *)
(* a delimiter and finds none.  A temporary file is named by its number,   *)
(* 0 is the empty name.                                                    *)
(***************************************************************************)
Terminal == "--B--"
Junk == "junk"
Segments == {"text a", "big text a", "file f", "big file f", "big file g", Junk}

EmptyMap == [x \in {} |-> 0]
MapSet(m, k, v) == [x \in DOMAIN m \cup {k} |-> IF x = k THEN v ELSE m[x]]

NilForm == [isNil |-> TRUE, Value |-> EmptyMap, File |-> EmptyMap]
NilMap == [isNil |-> TRUE, m |-> EmptyMap]

nonFileMaxMemory == 10 * 1048576
fileMaxMemory == 30 * 1048576

\* The part a segment encodes, as Part.parseFormData and the part's reader
\* give it: form name, file name, bytes of content; id tells the parts of one
\* body apart.  The parts of the model are a text field, a text field above
\* the ceiling of text, a file kept in memory and two files above the
\* ceiling of memory.
PartOf(seg, id) ==
    CASE seg = "text a" -> [name |-> "a", filename |-> "", size |-> 1, id |-> id]
      [] seg = "big text a" ->
            [name |-> "a", filename |-> "", size |-> nonFileMaxMemory + 1, id |-> id]
      [] seg = "file f" -> [name |-> "f", filename |-> "n", size |-> 1, id |-> id]
      [] seg = "big file f" ->
            [name |-> "f", filename |-> "n", size |-> fileMaxMemory + 1, id |-> id]
      [] seg = "big file g" ->
            [name |-> "g", filename |-> "n", size |-> fileMaxMemory + 1, id |-> id]
      [] OTHER -> [name |-> "", filename |-> "", size |-> 0, id |-> id]

\* MultipartForm.RemoveAll: the temporary file of every FileHeader of File.
RemoveAll(mf, dsk) == dsk \ {mf.File[k].tmpFile : k \in DOMAIN mf.File}

\* The loop of MultipartReader.ReadForm from part i of the segments on.
\* n is the number of segments NextPart has taken.
RECURSIVE ReadFormLoop(_, _, _, _, _, _, _)
ReadFormLoop(parts, i, mf, nonFileMax, fileMax, dsk, seq) ==
    IF i > Len(parts)
    THEN [mf |-> mf, err |-> "nil", disk |-> dsk, tmpSeq |-> seq, n |-> i - 1]
    ELSE IF parts[i] = Terminal
    THEN [mf |-> mf, err |-> "nil", disk |-> dsk, tmpSeq |-> seq, n |-> i]
    ELSE IF parts[i] = Junk
    THEN [mf |-> mf, err |-> "want delimiter", disk |-> dsk, tmpSeq |-> seq,
          n |-> i]
    ELSE
    Let(PartOf(parts[i], i), LAMBDA p :
        LET nText == Min(p.size, nonFileMax + 1)
            nFile == Min(p.size, fileMax + 1)
            file == seq + 1
            prev == IF p.name \in DOMAIN mf.File
                    THEN {mf.File[p.name].tmpFile} ELSE {}
        IN  IF p.name = ""
            THEN ReadFormLoop(parts, i + 1, mf, nonFileMax, fileMax, dsk, seq)
            ELSE IF p.filename = ""
            THEN IF nonFileMax - nText < 0
                 THEN [mf |-> NilForm, err |-> "multipart: message too large",
                       disk |-> dsk, tmpSeq |-> seq, n |-> i]
                 ELSE ReadFormLoop(parts, i + 1,
                          [mf EXCEPT !.Value = MapSet(@, p.name, p.id)],
                          nonFileMax - nText, fileMax, dsk, seq)
            ELSE IF fileMax >= nFile
            THEN ReadFormLoop(parts, i + 1,
                     [mf EXCEPT !.File = MapSet(@, p.name,
                         [FileName |-> p.filename, Size |-> nFile,
                          tmpFile |-> 0, part |-> p.id])],
                     nonFileMax, fileMax - nFile, dsk, seq)
            ELSE ReadFormLoop(parts, i + 1,
                     [mf EXCEPT !.File = MapSet(@, p.name,
                         [FileName |-> p.filename, Size |-> p.size,
                          tmpFile |-> file, part |-> p.id])],
                     nonFileMax, fileMax, (dsk \cup {file}) \ prev, file))

ReadForm(parts, dsk, seq) ==
    ReadFormLoop(parts, 1, [isNil |-> FALSE, Value |-> EmptyMap, File |-> EmptyMap],
                 nonFileMaxMemory, fileMaxMemory, dsk, seq)

(***************************************************************************)
(* Requests (part_002).  Proto is the text of the protocol version, one    *)
(* character per element.                                                  *)
(***************************************************************************)
HTTP10 == <<"H", "T", "T", "P", "/", "1", ".", "0">>
HTTP11 == <<"H", "T", "T", "P", "/", "1", ".", "1">>
HTTP20 == <<"H", "T", "T", "P", "/", "2", ".", "0">>

NoReq == [Method |-> "", Proto |-> <<>>, Header |-> EmptyHeader, Body |-> EofBody,
          contentType |-> <<>>, boundary |-> <<>>, postForm |-> NilMap,
          multipartForm |-> NilForm, haveParsedForm |-> FALSE,
          parseFormErr |-> "nil"]

\* c.lr.N after the header block: (1 << 63) - 1, written as -1.
noLimit == 0 - 1
lrInit == 1048576

\* Request.fixExpectContinueReader
fixExpectContinueReader(r) ==
    IF HeaderGet(r.Header, "Expect") # <<"100-continue">> THEN r
    ELSE [r EXCEPT !.Body.expect = TRUE]

\* Request.chunked
chunked(r) == HeaderGet(r.Header, "Transfer-Encoding") = <<"chunked">>

\* A setupBody that hands the handler conn.bufr itself when the length is
\* given: no io.LimitReader around it.
setupBody_Unbounded(r) ==
    LET cl == HeaderGet(r.Header, "Content-Length")
    IN  IF r.Method # "POST" /\ r.Method # "PUT" THEN [r EXCEPT !.Body = EofBody]
        ELSE IF chunked(r)
        THEN fixExpectContinueReader(
                 [r EXCEPT !.Body = [EofBody EXCEPT !.kind = "chunk"]])
        ELSE IF cl # <<>>
        THEN fixExpectContinueReader(
                 [r EXCEPT !.Body = [EofBody EXCEPT !.kind = "limit",
                                                    !.N = lrInit]])
        ELSE [r EXCEPT !.Body = EofBody]

\* A setupBody that looks at Content-Length before Transfer-Encoding.
setupBody_LengthFirst(r) ==
    LET cl == HeaderGet(r.Header, "Content-Length")
    IN  IF r.Method # "POST" /\ r.Method # "PUT" THEN [r EXCEPT !.Body = EofBody]
        ELSE IF cl # <<>>
        THEN Let(ParseInt(cl), LAMBDA contentLength :
                 IF contentLength.err # "nil" THEN [r EXCEPT !.Body = EofBody]
                 ELSE fixExpectContinueReader(
                          [r EXCEPT !.Body = [EofBody EXCEPT
                                                  !.kind = "limit",
                                                  !.N = contentLength.val]]))
        ELSE IF chunked(r)
        THEN fixExpectContinueReader(
                 [r EXCEPT !.Body = [EofBody EXCEPT !.kind = "chunk"]])
        ELSE [r EXCEPT !.Body = EofBody]

\* Request.setupBody
setupBody(r) ==
    LET cl == HeaderGet(r.Header, "Content-Length")
    IN  IF r.Method # "POST" /\ r.Method # "PUT" THEN [r EXCEPT !.Body = EofBody]
        ELSE IF chunked(r)
        THEN fixExpectContinueReader(
                 [r EXCEPT !.Body = [EofBody EXCEPT !.kind = "chunk"]])
        ELSE IF cl # <<>>
        THEN Let(ParseInt(cl), LAMBDA contentLength :
                 IF contentLength.err # "nil" THEN [r EXCEPT !.Body = EofBody]
                 ELSE fixExpectContinueReader(
                          [r EXCEPT !.Body = [EofBody EXCEPT
                                                  !.kind = "limit",
                                                  !.N = contentLength.val]]))
        ELSE [r EXCEPT !.Body = EofBody]

\* Request.parseContentType, on the tokens of the Content-Type value.
parseContentType(r) ==
    LET ct == HeaderGet(r.Header, "Content-Type")
        semis == {i \in 1..Len(ct) : ct[i] = ";"}
        index == IF semis = {} THEN 0 ELSE CHOOSE i \in semis : \A j \in semis : i <= j
        after == SubSeq(ct, index + 1, Len(ct))
        eqs == {i \in 1..Len(after) : after[i] = "="}
        e1 == CHOOSE i \in eqs : \A j \in eqs : i <= j
        later == {i \in eqs : i > e1}
        e2 == IF later = {} THEN Len(after) + 1
              ELSE CHOOSE i \in later : \A j \in later : i <= j
    IN  IF index = 0 THEN [r EXCEPT !.contentType = ct]
        ELSE IF index = Len(ct) THEN r
        ELSE IF eqs = {} \/ SubSeq(after, 1, e1 - 1) # <<"boundary">> THEN r
        ELSE [r EXCEPT !.contentType = SubSeq(ct, 1, index - 1),
                       !.boundary = SubSeq(after, e1 + 1, e2 - 1)]

\* What a peer sends for one request: the request line and header block
\* (bad names the step of readRequest that fails on them, "nil" when none
\* does) and the bytes of the body after them.
Msg(bad, method, proto, header, body) ==
    [bad |-> bad, Method |-> method, Proto |-> proto, Header |-> header,
     body |-> body]

\* readRequest: the request line, the request target and the header block,
\* then the limit lifted, the body set up and the content type parsed.
readRequest(m, n) ==
    IF m.bad # "nil" THEN [req |-> NoReq, err |-> m.bad, lrN |-> n]
    ELSE [req |-> parseContentType(setupBody(
                      [NoReq EXCEPT !.Method = m.Method, !.Proto = m.Proto,
                                    !.Header = m.Header])),
          err |-> "nil", lrN |-> noLimit]

(***************************************************************************)
(* Responses (response.go, chunk.go).  resp.bufw, the writer on the        *)
(* chunkWriter, is never written: response.Write writes to conn.bufw.  It  *)
(* is therefore always empty, its Flush writes nothing and cw.wrote and    *)
(* resp.chunking keep their first values.                                  *)
(***************************************************************************)
\* fmt.Sscanf(req.Proto, "HTTP/%d%d", &protoMinor, &protoMajor): the text
\* "HTTP/", then two integers with nothing between them.  The pair is
\* <<protoMinor, protoMajor>>; an operand the scan does not reach stays 0.
Sscanf_Proto(proto) ==
    IF Len(proto) < 5 \/ SubSeq(proto, 1, 5) # <<"H", "T", "T", "P", "/">>
    THEN <<0, 0>>
    ELSE Let(scanDigits(SubSeq(proto, 6, Len(proto)), 0, 0), LAMBDA first :
             IF ~first.ok THEN <<0, 0>>
             ELSE Let(scanDigits(first.rest, 0, 0), LAMBDA second :
                      IF ~second.ok THEN <<first.val, 0>>
                      ELSE <<first.val, second.val>>))

\* setupResponse without the clause for protoMinor == 1 && protoMajor == 0.
setupResponse_BelowOnly(r) ==
    Let(Sscanf_Proto(r.Proto), LAMBDA scanned :
        [wroteHeader |-> FALSE, header |-> EmptyHeader, statusCode |-> 200,
         handlerDone |-> FALSE, chunking |-> FALSE, cwWrote |-> FALSE,
         closeAfterReply |->
             \/ scanned[1] < 1
             \/ HeaderGet(r.Header, "Connectioni") = <<"close">>])

setupResponse(r) ==
    Let(Sscanf_Proto(r.Proto), LAMBDA scanned :
        LET protoMinor == scanned[1]
            protoMajor == scanned[2]
        IN  [wroteHeader |-> FALSE, header |-> EmptyHeader, statusCode |-> 200,
             handlerDone |-> FALSE, chunking |-> FALSE, cwWrote |-> FALSE,
             closeAfterReply |->
                 \/ protoMinor < 1
                 \/ protoMinor = 1 /\ protoMajor = 0
                 \/ HeaderGet(r.Header, "Connectioni") = <<"close">>])

NoResp == [wroteHeader |-> FALSE, header |-> EmptyHeader, statusCode |-> 0,
           handlerDone |-> FALSE, chunking |-> FALSE, cwWrote |-> FALSE,
           closeAfterReply |-> FALSE]

\* response.Write(p), len(p) = n
response_Write(w, o, n, up) ==
    Let(bufw_Write(o, n, up), LAMBDA o1 :
        [resp |-> IF o1.err THEN [w EXCEPT !.closeAfterReply = TRUE] ELSE w,
         out |-> o1])

\* response.WriteHeader
response_WriteHeader(w, statusCode) ==
    IF w.wroteHeader THEN w
    ELSE [w EXCEPT !.statusCode = statusCode, !.wroteHeader = TRUE]

\* A writeHeader that ends after the last header line, without the blank one.
chunkWriter_writeHeader_NoBlank(w, o) ==
    bufw_WriteString(o, <<StatusLine(w.statusCode), HeaderBlock(w.header)>>)

\* chunkWriter.writeHeader: the status line, the headers, the blank line.
chunkWriter_writeHeader(w, o) ==
    bufw_WriteString(o, <<StatusLine(w.statusCode), HeaderBlock(w.header),
                          BlankLine>>)

\* Request.finishRequest
finishRequest(r, w, s, o, dsk, up) ==
    LET dsk1 == IF ~r.multipartForm.isNil THEN RemoveAll(r.multipartForm, dsk)
                ELSE dsk
        w1 == [w EXCEPT !.handlerDone = TRUE]
        w2 == IF ~w.cwWrote
              THEN [w1 EXCEPT !.header = HeaderSet(@, "Content-Length", <<"0">>)]
              ELSE w1
    IN  Let(IF w.chunking THEN bufw_WriteString(o, <<LastChunk>>) ELSE o,
            LAMBDA o1 :
        IF w.chunking /\ o1.err
        THEN [req |-> r, resp |-> w1, rest |-> s, out |-> o1, disk |-> dsk1,
              err |-> "write"]
        ELSE
        Let(IF ~w.cwWrote THEN chunkWriter_writeHeader(w2, o1) ELSE o1,
            LAMBDA o2 :
        IF ~w.cwWrote /\ o2.err
        THEN [req |-> r, resp |-> w2, rest |-> s, out |-> o2, disk |-> dsk1,
              err |-> "write"]
        ELSE
        Let(bufw_Flush(o2, up), LAMBDA o3 :
        IF o3.err
        THEN [req |-> r, resp |-> w2, rest |-> s, out |-> o3, disk |-> dsk1,
              err |-> "write"]
        ELSE
        Let(DrainBody(r.Body, s, o3, up), LAMBDA d :
            [req |-> [r EXCEPT !.Body = d.body], resp |-> w2, rest |-> d.rest,
             out |-> d.out, disk |-> dsk1, err |-> d.err]))))

(***************************************************************************)
(* Lazy form parsing (part_002).                                           *)
(***************************************************************************)
\* Request.parseMultipartForm.  The multipart reader reads r.Body segment by
\* segment; panic says the call dereferenced the nil form ReadForm returned.
parseMultipartForm(r, s, o, dsk, seq, up) ==
    IF r.boundary = <<>>
    THEN [req |-> r, rest |-> s, out |-> o, disk |-> dsk, tmpSeq |-> seq,
          err |-> "no boundary detected", panic |-> FALSE]
    ELSE
    Let(expectContinue(r.Body, o, up), LAMBDA e :
    Let(ReadForm(IF r.Body.kind = "limit"
                 THEN SubSeq(s, 1, Min(r.Body.N, Len(s))) ELSE <<>>, dsk, seq),
        LAMBDA f :
        [req |-> [r EXCEPT !.Body = [e.body EXCEPT !.N = @ - f.n],
                           !.multipartForm = f.mf,
                           !.postForm = IF f.mf.isNil THEN @
                                        ELSE [isNil |-> FALSE, m |-> f.mf.Value]],
         rest |-> SubSeq(s, f.n + 1, Len(s)), out |-> e.out,
         disk |-> f.disk, tmpSeq |-> f.tmpSeq, err |-> f.err,
         panic |-> f.mf.isNil]))

\* Request.parsePostForm: ioutil.ReadAll(r.Body), then parseQuery.
parsePostForm(r, s, o, dsk, seq, up) ==
    Let(DrainBody(r.Body, s, o, up), LAMBDA d :
        [req |-> [r EXCEPT !.Body = d.body,
                           !.postForm = IF d.err # "nil" THEN @
                                        ELSE [isNil |-> FALSE, m |-> EmptyMap]],
         rest |-> d.rest, out |-> d.out, disk |-> dsk, tmpSeq |-> seq,
         err |-> d.err, panic |-> FALSE])

\* Request.parseForm
parseForm(r, s, o, dsk, seq, up) ==
    LET r1 == [r EXCEPT !.haveParsedForm = TRUE]
    IN  IF r.Method # "POST" /\ r.Method # "PUT"
        THEN [req |-> r, rest |-> s, out |-> o, disk |-> dsk, tmpSeq |-> seq,
              err |-> "missing form body", panic |-> FALSE]
        ELSE IF r.contentType = <<"application/x-www-form-urlencoded">>
        THEN parsePostForm(r1, s, o, dsk, seq, up)
        ELSE IF r.contentType = <<"multipart/form-data">>
        THEN parseMultipartForm(r1, s, o, dsk, seq, up)
        ELSE [req |-> r1, rest |-> s, out |-> o, disk |-> dsk, tmpSeq |-> seq,
              err |-> "unsupported form type", panic |-> FALSE]

\* Request.MultipartForm: res is the pair it returns.
Request_MultipartForm(r, s, o, dsk, seq, up) ==
    Let(IF r.haveParsedForm
        THEN [req |-> r, rest |-> s, out |-> o, disk |-> dsk, tmpSeq |-> seq,
              err |-> "nil", panic |-> FALSE]
        ELSE parseForm(r, s, o, dsk, seq, up), LAMBDA g :
        IF g.panic THEN [g EXCEPT !.err = "nil"] @@ [res |-> <<NilForm, "nil">>]
        ELSE IF g.err # "nil"
        THEN [g EXCEPT !.req.parseFormErr = g.err] @@ [res |-> <<NilForm, g.err>>]
        ELSE g @@ [res |-> <<g.req.multipartForm, g.req.parseFormErr>>])

\* Request.PostForm(name): res is the value it returns, 0 for "".
Request_PostForm(r, s, o, dsk, seq, up, name) ==
    Let(IF r.haveParsedForm
        THEN [req |-> r, rest |-> s, out |-> o, disk |-> dsk, tmpSeq |-> seq,
              err |-> r.parseFormErr, panic |-> FALSE]
        ELSE parseForm(r, s, o, dsk, seq, up), LAMBDA g :
        IF g.panic THEN g @@ [res |-> <<0>>]
        ELSE [g EXCEPT !.req.parseFormErr = g.err]
             @@ [res |-> IF g.err # "nil" \/ g.req.postForm.isNil
                              \/ name \notin DOMAIN g.req.postForm.m
                         THEN <<0>> ELSE <<g.req.postForm.m[name]>>])

NilFile == [FileName |-> "", Size |-> 0, tmpFile |-> 0, part |-> 0]

\* Request.FormFile(key): res is the pair it returns; panic says the call
\* dereferenced the nil form MultipartForm returned without an error.
Request_FormFile(r, s, o, dsk, seq, up, key) ==
    Let(Request_MultipartForm(r, s, o, dsk, seq, up), LAMBDA g :
        IF g.panic THEN g
        ELSE IF g.res[2] # "nil" THEN [g EXCEPT !.res = <<NilFile, g.res[2]>>]
        ELSE IF g.res[1].isNil THEN [g EXCEPT !.panic = TRUE]
        ELSE IF key \notin DOMAIN g.res[1].File
        THEN [g EXCEPT !.res = <<NilFile, "http: miss multipart file">>]
        ELSE [g EXCEPT !.res = <<g.res[1].File[key], "nil">>])

(***************************************************************************)
(* What the peer may send.                                                 *)
(***************************************************************************)
MaxBody == 2       \* bytes of a fixed-length body

Digit(n) == CHOOSE d \in DOMAIN DigitVal : DigitVal[d] = n
Protos == {HTTP10, HTTP11, HTTP20}
ExpectHeaders == {EmptyHeader, "Expect" :> <<"100-continue">>}

GetRequests ==
    {Msg("nil", "GET", p, h, <<>>) :
        p \in Protos, h \in {EmptyHeader, "Connection" :> <<"close">>}}
    \cup {Msg("nil", "GET", HTTP20, "Connectioni" :> <<"close">>, <<>>)}

\* Chunked bodies of no chunk or one; longer ones are read in SpecChunk.
ChunkedRequests ==
    {Msg("nil", "POST", HTTP20, ("Transfer-Encoding" :> <<"chunked">>) @@ e,
         EncodeChunks(cs)) :
        cs \in {c \in ChunkLists : Len(c) <= 1}, e \in ExpectHeaders}

FixedRequests ==
    {Msg("nil", "POST", p, ("Content-Length" :> <<Digit(n)>>) @@ e,
         [i \in 1..n |-> "x"]) :
        p \in {HTTP11, HTTP20}, n \in 0..MaxBody, e \in ExpectHeaders}
    \cup {Msg("nil", "POST", HTTP20, "Content-Length" :> <<"z">>, <<"x">>)}

PartLists == UNION {[1..n -> Segments] : n \in 0..MaxParts}

MultipartType == <<"multipart/form-data", ";", "boundary", "=", "B">>
FormRequests ==
    {Msg("nil", "POST", HTTP20,
         ("Content-Type" :> MultipartType)
             @@ ("Content-Length" :> <<Digit(Len(ps) + 1)>>),
         ps \o <<Terminal>>) : ps \in PartLists}
    \cup {Msg("nil", "POST", HTTP20,
              ("Content-Type" :> <<"multipart/form-data">>)
                  @@ ("Content-Length" :> <<"1">>), <<Terminal>>),
          Msg("nil", "POST", HTTP20,
              ("Content-Type" :> <<"application/x-www-form-urlencoded">>)
                  @@ ("Content-Length" :> <<"1">>), <<"x">>)}

\* Requests on the edges of the choice of the body's framing: a GET that
\* announces a body, a PUT, a POST that announces a length and chunks, and a
\* POST that announces neither.
FramingRequests ==
    {Msg("nil", "GET", HTTP20, "Content-Length" :> <<"1">>, <<"x">>),
     Msg("nil", "PUT", HTTP20, "Content-Length" :> <<"1">>, <<"x">>),
     Msg("nil", "POST", HTTP20,
         ("Transfer-Encoding" :> <<"chunked">>) @@ ("Content-Length" :> <<"1">>),
         EncodeChunks(<<>>)),
     Msg("nil", "POST", HTTP20,
         ("Transfer-Encoding" :> <<"gzip">>) @@ ("Content-Length" :> <<"1">>),
         <<"x">>),
     Msg("nil", "POST", HTTP20, EmptyHeader, <<>>)}

Requests ==
    GetRequests \cup ChunkedRequests \cup FixedRequests \cup FormRequests
        \cup FramingRequests

\* The steps of readRequest that fail: the read of the request line, the
\* scan of its three tokens, url.ParseRequestURI, readHeader.
DecodeErrors == {"transport", "line", "uri", "header"}

\* Lengths of the handler's writes: one that the buffer holds and one that
\* passes it.
WriteLens == {1, 2 * bufSize + 1}
StatusCodes == {200, 404}

\* The arguments the handler passes to PostForm and to FormFile, and the
\* accessor calls it can make: accessor and argument.
PostFormNames == {"a"}
FormFileKeys == {"f"}
Calls == {<<"MultipartForm", "">>} \cup ({"PostForm"} \X PostFormNames)
             \cup ({"FormFile"} \X FormFileKeys)

\* The history after accessor call c returned res: the first and the last
\* result of each call, and how many times parseForm went on to the body.
NoteCall(h, c, res, r, r2) ==
    [h EXCEPT !.first[c] = IF @ = <<>> THEN res ELSE @,
              !.last[c] = res,
              !.parses = @ + (IF ~r.haveParsedForm /\ r2.haveParsedForm
                              THEN 1 ELSE 0),
              !.bodyRead = @ \/ r2.Body # r.Body]

(***************************************************************************)
(* conn.serve (part_001).                                                  *)
(***************************************************************************)
\* What is recorded of the current iteration: how it ended (outcome), what
\* the handler did, the fault a panic raised, the handler's invocations on
\* this connection and c.lr.N when the decoding began.
\* status is the status code the reply is to carry by the rule of the first
\* WriteHeader made before any body byte, 200 without one; setStatus says a
\* WriteHeader has been called.
NewHist(invoked, n) ==
    [outcome |-> "none", bodyRead |-> FALSE, wroteBody |-> FALSE,
     removeAllRan |-> FALSE, fault |-> "none", invoked |-> invoked,
     lrAtDecode |-> n, status |-> 200, setStatus |-> FALSE,
     faultBy |-> "none", parses |-> 0,
     first |-> [c \in Calls |-> <<>>], last |-> [c \in Calls |-> <<>>]]

\* The deferred function without its call of recover: c.close() alone.
serve_deferred_NoRecover(fault) == [fault |-> fault, pc |-> "closed"]

\* The deferred function of serve: recover, then c.close().
serve_deferred(fault) ==
    [fault |-> IF fault = "raised" THEN "recovered" ELSE fault, pc |-> "closed"]

ConnInit ==
    /\ pc = "read"
    /\ req = NoReq
    /\ resp = NoResp
    /\ out = NewBufw
    /\ inb = <<>>
    /\ lrN = lrInit
    /\ disk = {}
    /\ tmpSeq = 0
    /\ rwcUp = TRUE
    /\ nreq = 0
    /\ steps = 0
    /\ hist = NewHist(0, lrInit)

CkIdle == [cw |-> NewChunkReader, rest |-> <<>>, got |-> <<>>, err |-> "idle",
           payload |-> <<>>]
DcIdle == [in |-> <<>>, crlf |-> <<NUL, NUL>>, routine |-> "none", err |-> "nil",
           rest |-> <<>>]

FxIdle == [body |-> EofBody, rest |-> <<>>, got |-> <<>>, err |-> "idle",
           want |-> <<>>, tail |-> <<>>, lenp |-> 0, n |-> 0]

\* rf: the segments of a multipart body, the form and the error ReadForm
\* returned for them, and the temporary files that exist.
RfIdle == [parts |-> <<>>, stage |-> "idle", mf |-> NilForm, err |-> "nil",
           disk |-> {}]

Init == ConnInit /\ ck = CkIdle /\ dc = DcIdle /\ fx = FxIdle /\ rf = RfIdle

\* readRequest succeeds, setupResponse, and the handler is invoked.
ReadRequestOK ==
    /\ pc = "read"
    /\ nreq < MaxReqs
    /\ inb = <<>>
    /\ \E m \in Requests : \E rr \in {readRequest(m, lrN)} :
            /\ req' = rr.req
            /\ resp' = setupResponse(rr.req)
            /\ inb' = m.body
            /\ lrN' = rr.lrN
    /\ pc' = "handler"
    /\ nreq' = nreq + 1
    /\ steps' = 0
    /\ out' = [out EXCEPT !.wire = <<>>, !.reply = <<>>]
    /\ hist' = NewHist(hist.invoked + 1, lrN)
    /\ UNCHANGED <<disk, tmpSeq, rwcUp, ck, dc, fx, rf>>

\* A serve that answers a request it could not decode before it returns.
ReadRequestFail_Reply ==
    /\ pc = "read"
    /\ \E bad \in DecodeErrors :
       \E rr \in {readRequest(Msg(IF inb # <<>> THEN "line" ELSE bad, "", <<>>,
                                  EmptyHeader, <<>>), lrN)} :
            /\ rr.err # "nil"
            /\ req' = rr.req
            /\ lrN' = rr.lrN
    /\ hist' = [NewHist(hist.invoked, lrN) EXCEPT
                    !.outcome = "decodeErr",
                    !.fault = serve_deferred("none").fault]
    /\ resp' = NoResp
    /\ pc' = serve_deferred("none").pc
    /\ out' = bufw_Flush(bufw_WriteString(
                  [out EXCEPT !.wire = <<>>, !.reply = <<>>],
                  <<StatusLine(400), BlankLine>>), rwcUp)
    /\ UNCHANGED <<inb, disk, tmpSeq, rwcUp, nreq, steps, ck, dc, fx, rf>>

\* readRequest fails: handleErr, return, the deferred function.  Bytes of the
\* last body still unread are read as the request line, and the bytes of
\* this model's bodies never make the three tokens of one.
ReadRequestFail ==
    /\ pc = "read"
    /\ \E bad \in DecodeErrors :
       \E rr \in {readRequest(Msg(IF inb # <<>> THEN "line" ELSE bad, "", <<>>,
                                  EmptyHeader, <<>>), lrN)} :
            /\ rr.err # "nil"
            /\ req' = rr.req
            /\ lrN' = rr.lrN
    /\ hist' = [NewHist(hist.invoked, lrN) EXCEPT
                    !.outcome = "decodeErr",
                    !.fault = serve_deferred("none").fault]
    /\ resp' = NoResp
    /\ pc' = serve_deferred("none").pc
    /\ out' = [out EXCEPT !.wire = <<>>, !.reply = <<>>]
    /\ UNCHANGED <<inb, disk, tmpSeq, rwcUp, nreq, steps, ck, dc, fx, rf>>

\* The handler calls w.Write(p).
HandlerWrite ==
    /\ pc = "handler"
    /\ steps < MaxSteps
    /\ \E n \in WriteLens : \E w \in {response_Write(resp, out, n, rwcUp)} :
            /\ resp' = w.resp
            /\ out' = w.out
            /\ hist' = [hist EXCEPT !.wroteBody = @ \/ w.out.reply # out.reply]
    /\ steps' = steps + 1
    /\ UNCHANGED <<pc, req, inb, lrN, disk, tmpSeq, rwcUp, nreq, ck, dc, fx, rf>>

\* The handler calls w.WriteHeader(statusCode).
HandlerWriteHeader ==
    /\ pc = "handler"
    /\ steps < MaxSteps
    /\ \E code \in StatusCodes :
           /\ resp' = response_WriteHeader(resp, code)
           /\ hist' = [hist EXCEPT
                           !.setStatus = TRUE,
                           !.status = IF ~hist.setStatus /\ ~hist.wroteBody
                                      THEN code ELSE @]
    /\ steps' = steps + 1
    /\ UNCHANGED <<pc, req, out, inb, lrN, disk, tmpSeq, rwcUp, nreq, ck, dc, fx, rf>>

\* The handler calls r.Body.Read(p).
HandlerRead ==
    /\ pc = "handler"
    /\ steps < MaxSteps
    /\ \E lenp \in 1..MaxBuf : \E k \in 1..lenp :
       \E r \in {Body_Read(req.Body, inb, lenp, k, out, rwcUp)} :
            /\ req' = [req EXCEPT !.Body = r.body]
            /\ inb' = r.rest
            /\ out' = r.out
    /\ hist' = [hist EXCEPT !.bodyRead = TRUE]
    /\ steps' = steps + 1
    /\ UNCHANGED <<pc, resp, lrN, disk, tmpSeq, rwcUp, nreq, ck, dc, fx, rf>>

\* The handler calls r.MultipartForm(), which returns.
HandlerMultipartForm ==
    /\ pc = "handler"
    /\ steps < MaxSteps
    /\ \E f \in {Request_MultipartForm(req, inb, out, disk, tmpSeq, rwcUp)} :
           /\ ~f.panic
           /\ req' = f.req
           /\ inb' = f.rest
           /\ out' = f.out
           /\ disk' = f.disk
           /\ tmpSeq' = f.tmpSeq
           /\ hist' = [NoteCall(hist, <<"MultipartForm", "">>, f.res, req, f.req)
                          EXCEPT !.bodyRead = @ \/ f.rest # inb]
    /\ steps' = steps + 1
    /\ UNCHANGED <<pc, resp, lrN, rwcUp, nreq, ck, dc, fx, rf>>

\* The handler calls r.PostForm(name), which returns.
HandlerPostForm ==
    /\ pc = "handler"
    /\ steps < MaxSteps
    /\ \E name \in PostFormNames :
       \E f \in {Request_PostForm(req, inb, out, disk, tmpSeq, rwcUp, name)} :
           /\ ~f.panic
           /\ req' = f.req
           /\ inb' = f.rest
           /\ out' = f.out
           /\ disk' = f.disk
           /\ tmpSeq' = f.tmpSeq
           /\ hist' = [NoteCall(hist, <<"PostForm", name>>, f.res, req, f.req)
                          EXCEPT !.bodyRead = @ \/ f.rest # inb]
    /\ steps' = steps + 1
    /\ UNCHANGED <<pc, resp, lrN, rwcUp, nreq, ck, dc, fx, rf>>

\* The handler calls r.FormFile(key), which returns.
HandlerFormFile ==
    /\ pc = "handler"
    /\ steps < MaxSteps
    /\ \E key \in FormFileKeys :
       \E f \in {Request_FormFile(req, inb, out, disk, tmpSeq, rwcUp, key)} :
           /\ ~f.panic
           /\ req' = f.req
           /\ inb' = f.rest
           /\ out' = f.out
           /\ disk' = f.disk
           /\ tmpSeq' = f.tmpSeq
           /\ hist' = [NoteCall(hist, <<"FormFile", key>>, f.res, req, f.req)
                          EXCEPT !.bodyRead = @ \/ f.rest # inb]
    /\ steps' = steps + 1
    /\ UNCHANGED <<pc, resp, lrN, rwcUp, nreq, ck, dc, fx, rf>>

\* The call c of a form accessor.
FormCall(c, r, s, o, dsk, seq, up) ==
    IF c[1] = "MultipartForm" THEN Request_MultipartForm(r, s, o, dsk, seq, up)
    ELSE IF c[1] = "PostForm" THEN Request_PostForm(r, s, o, dsk, seq, up, c[2])
    ELSE Request_FormFile(r, s, o, dsk, seq, up, c[2])

\* The handler calls a form accessor, which panics: the deferred function.
HandlerFormPanic ==
    /\ pc = "handler"
    /\ steps < MaxSteps
    /\ \E c \in Calls :
       \E f \in {FormCall(c, req, inb, out, disk, tmpSeq, rwcUp)} :
           /\ f.panic
           /\ req' = f.req
           /\ inb' = f.rest
           /\ out' = f.out
           /\ disk' = f.disk
           /\ tmpSeq' = f.tmpSeq
           /\ hist' = [hist EXCEPT !.bodyRead = TRUE, !.outcome = "panic",
                                   !.fault = serve_deferred("raised").fault,
                                   !.faultBy = c[1]]
    /\ pc' = serve_deferred("raised").pc
    /\ steps' = steps + 1
    /\ UNCHANGED <<resp, lrN, rwcUp, nreq, ck, dc, fx, rf>>

\* The handler panics: the deferred function.
HandlerPanic ==
    /\ pc = "handler"
    /\ pc' = serve_deferred("raised").pc
    /\ hist' = [hist EXCEPT !.outcome = "panic",
                            !.fault = serve_deferred("raised").fault,
                            !.faultBy = "handler"]
    /\ UNCHANGED <<req, resp, out, inb, lrN, disk, tmpSeq, rwcUp, nreq, steps,
                   ck, dc, fx, rf>>

\* The handler returns: finishRequest, then the loop goes on or returns.
HandlerReturn ==
    /\ pc = "handler"
    /\ \E f \in {finishRequest(req, resp, inb, out, disk, rwcUp)} :
       \E outcome \in {IF f.err # "nil" THEN "finishErr"
                       ELSE IF f.resp.closeAfterReply THEN "close"
                       ELSE "keepalive"} :
           /\ req' = f.req
           /\ resp' = f.resp
           /\ inb' = f.rest
           /\ out' = f.out
           /\ disk' = f.disk
           /\ pc' = IF outcome = "keepalive" THEN "read"
                    ELSE serve_deferred("none").pc
           /\ hist' = [hist EXCEPT !.outcome = outcome,
                                   !.removeAllRan = ~req.multipartForm.isNil]
    /\ UNCHANGED <<lrN, tmpSeq, rwcUp, nreq, steps, ck, dc, fx, rf>>

\* The peer stops taking what the server writes.
PeerGone ==
    /\ pc # "closed"
    /\ rwcUp
    /\ rwcUp' = FALSE
    /\ UNCHANGED <<pc, req, resp, out, inb, lrN, disk, tmpSeq, nreq, steps, hist,
                   ck, dc, fx, rf>>

Next ==
    \/ ReadRequestOK
    \/ ReadRequestFail
    \/ HandlerWrite
    \/ HandlerWriteHeader
    \/ HandlerRead
    \/ HandlerMultipartForm
    \/ HandlerPostForm
    \/ HandlerFormFile
    \/ HandlerFormPanic
    \/ HandlerPanic
    \/ HandlerReturn
    \/ PeerGone

Spec == Init /\ [][Next]_vars

(***************************************************************************)
(* chunkReader alone: a valid chunked body, read to the end with buffers   *)
(* of every length.  ck.payload is what the peer framed, ck.got what the   *)
(* reads have returned, ck.err the error of the last read.                 *)
(***************************************************************************)
ChunkInit ==
    /\ ConnInit
    /\ dc = DcIdle
    /\ fx = FxIdle
    /\ rf = RfIdle
    /\ \E cs \in ChunkLists :
           ck = [cw |-> NewChunkReader, rest |-> EncodeChunks(cs), got |-> <<>>,
                 err |-> "nil", payload |-> Flatten(cs)]

\* One call of chunkReader.Read by a caller that reads until an error.
ChunkRead ==
    /\ ck.err = "nil"
    /\ \E lenp \in 1..MaxBuf : \E k \in 1..lenp :
       \E r \in {chunkReader_Read(ck.cw, ck.rest, lenp, k)} :
           ck' = [ck EXCEPT !.cw = r.cw, !.rest = r.rest, !.got = @ \o r.data,
                            !.err = r.err]
    /\ UNCHANGED <<connVars, dc, fx, rf>>

SpecChunk == ChunkInit /\ [][ChunkRead]_vars

(***************************************************************************)
(* The two discardCRLF routines alone, on every short stream of the bytes  *)
(* below and with the two-byte array fresh or left by an earlier call.     *)
(***************************************************************************)
DelimBytes == {CR, LF, "x", "0", "-"}
DelimStreams == UNION {[1..n -> DelimBytes] : n \in 0..MaxIn}

CRLFInit ==
    /\ ConnInit
    /\ ck = CkIdle
    /\ fx = FxIdle
    /\ rf = RfIdle
    /\ \E s \in DelimStreams : \E a \in {<<NUL, NUL>>, <<CR, LF>>} :
           dc = [DcIdle EXCEPT !.in = s, !.crlf = a]

ChunkDiscardCRLF ==
    /\ dc.routine = "none"
    /\ \E r \in {chunkReader_discardCRLF(dc.crlf, dc.in)} :
           dc' = [dc EXCEPT !.routine = "chunkReader", !.crlf = r.crlf,
                            !.err = r.err, !.rest = r.rest]
    /\ UNCHANGED <<connVars, ck, fx, rf>>

MultipartDiscardCRLF ==
    /\ dc.routine = "none"
    /\ \E r \in {MultipartReader_discardCRLF(dc.crlf, dc.in)} :
           dc' = [dc EXCEPT !.routine = "MultipartReader", !.crlf = r.crlf,
                            !.err = r.err, !.rest = r.rest]
    /\ UNCHANGED <<connVars, ck, fx, rf>>

SpecCRLF == CRLFInit /\ [][ChunkDiscardCRLF \/ MultipartDiscardCRLF]_vars

(***************************************************************************)
(* Properties of the connection loop.  An iteration has ended when         *)
(* hist.outcome is no longer "none"; out.wire and out.reply are then what  *)
(* that iteration put on rwc and gave to conn.bufw.                        *)
(***************************************************************************)
Finished == hist.outcome \in {"close", "keepalive"}
NoCloseHeader == HeaderGet(req.Header, "Connection") # <<"close">>
Kinds(items) == [i \in 1..Len(items) |-> items[i].k]
FinalReply(items) == SelectSeq(items, LAMBDA it : it.k # "continue")
BodyKinds == {"body", "chunksize", "chunkend", "lastchunk"}

\* C1: when the handler wrote body bytes and the reply is complete, what went
\* on the connection for it is the status line, the header block, the blank
\* line and only then body bytes, the head exactly once.
C1_HeadBeforeBody ==
    (Finished /\ hist.wroteBody) =>
        LET k == Kinds(FinalReply(out.wire))
        IN  /\ Len(k) >= 4
            /\ SubSeq(k, 1, 3) = <<"status", "headers", "blank">>
            /\ \A i \in 4..Len(k) : k[i] \in BodyKinds

\* C2: an HTTP/1.1 request without Connection: close, whose writes all
\* succeeded and whose finishRequest succeeded, leaves the loop reading the
\* next request on the same connection.
C2_KeepAlive11 ==
    (Finished /\ req.Proto = HTTP11 /\ NoCloseHeader /\ ~out.err) =>
        (hist.outcome = "keepalive" /\ pc = "read")

\* C3: a request that carries Connection: close, whatever its version, has
\* closeAfterReply set and the connection closed after the reply.
C3_CloseHeaderCloses ==
    (HeaderGet(req.Header, "Connection") = <<"close">>) =>
        /\ resp.closeAfterReply
        /\ hist.outcome # "keepalive"
        /\ pc # "read"

\* C4: after an HTTP/1.0 request without a close header the connection is
\* closed once the reply is done: closeAfterReply is set, the loop is never
\* back at reading a request, and an ended iteration has closed.
C4_Http10Closes ==
    (req.Proto = HTTP10 /\ NoCloseHeader) =>
        /\ resp.closeAfterReply
        /\ pc # "read"
        /\ hist.outcome # "keepalive"
        /\ (hist.outcome # "none" => pc = "closed")

C4_Witness ==
    /\ req.Proto = HTTP10 /\ NoCloseHeader
    /\ hist.outcome = "close" /\ pc = "closed"
    /\ Kinds(out.wire) = <<"status", "headers", "blank">>

\* C5: when readRequest fails, on the first or a later request, the handler
\* is not invoked for it, nothing is written for it and the connection is
\* closed.
C5_DecodeFailureCloses ==
    (hist.outcome = "decodeErr") =>
        /\ pc = "closed"
        /\ hist.invoked = nreq
        /\ resp = NoResp
        /\ out.reply = <<>> /\ out.wire = <<>>

C5_Witness ==
    /\ hist.outcome = "decodeErr" /\ pc = "closed"
    /\ nreq = 1 /\ hist.invoked = 1 /\ rwcUp

\* C6: a panic raised while the handler runs is recovered by serve's deferred
\* function and the connection is closed.
C6_PanicRecovered ==
    (hist.outcome = "panic") => (hist.fault = "recovered" /\ pc = "closed")

C6_Witness ==
    /\ hist.outcome = "panic" /\ hist.fault = "recovered" /\ pc = "closed"
    /\ steps > 0 /\ hist.wroteBody

\* C7: when the iteration of a request whose multipart form was decoded has
\* ended, with the handler returned or panicked, the cleanup has been done:
\* none of the temporary files of the form's FileHeaders exists.
C7_FormCleanedUp ==
    (hist.outcome # "none" /\ ~req.multipartForm.isNil) =>
        \A k \in DOMAIN req.multipartForm.File :
            req.multipartForm.File[k].tmpFile \notin disk

\* C8: for a body that expects 100-continue, as long as the handler has not
\* read the body the interim response is not written, the end of the request
\* included.
C8_NoContinueUnread ==
    (req.Body.expect /\ ~hist.bodyRead) =>
        \A i \in 1..Len(out.reply) : out.reply[i] # Continue100

(***************************************************************************)
(* Properties of chunkReader and of the discardCRLF routines.              *)
(***************************************************************************)
\* C9: when chunkReader.Read reports io.EOF, the bytes returned so far are
\* the chunk payloads in order and the whole body, terminal chunk included,
\* has been taken from the stream.
C9_ChunkRoundTrip ==
    (ck.err = "EOF") => (ck.got = ck.payload /\ ck.rest = <<>>)

\* C10: a discardCRLF routine that read two bytes returns nil only when the
\* first is CR and the second is LF.
C10_OnlyCRLFAccepted ==
    (dc.routine # "none" /\ Len(dc.in) >= 2 /\ dc.err = "nil") =>
        (dc.in[1] = CR /\ dc.in[2] = LF)

(***************************************************************************)
(* A fixed-length body alone: the request's N body bytes are on the stream *)
(* with the first bytes of the next request after them, and the body that  *)
(* setupBody installed is read until it reports an error.  fx.want is the  *)
(* body the peer sent, fx.tail what follows it, fx.got what the reads have *)
(* returned, fx.lenp and fx.n the len(p) and the n of the last Read.       *)
(***************************************************************************)
NextRequestBytes(n) == [i \in 1..n |-> "g"]

FixedInit ==
    /\ ConnInit
    /\ ck = CkIdle
    /\ dc = DcIdle
    /\ rf = RfIdle
    /\ \E n \in 0..MaxBody : \E t \in 0..MaxIn : \E method \in {"POST", "PUT"} :
       \E e \in ExpectHeaders :
       \E r \in {setupBody([NoReq EXCEPT
                                !.Method = method,
                                !.Header = ("Content-Length" :> <<Digit(n)>>) @@ e])} :
           fx = [body |-> r.Body, rest |-> Payload(n) \o NextRequestBytes(t),
                 got |-> <<>>, err |-> "nil", want |-> Payload(n),
                 tail |-> NextRequestBytes(t), lenp |-> 0, n |-> 0]

\* One call of r.Body.Read by a caller that reads until an error.
FixedRead ==
    /\ fx.err = "nil"
    /\ \E lenp \in 1..MaxBuf : \E k \in 1..lenp :
       \E r \in {Body_Read(fx.body, fx.rest, lenp, k, NewBufw, TRUE)} :
           fx' = [fx EXCEPT !.body = r.body, !.rest = r.rest,
                            !.got = @ \o r.data, !.err = r.err,
                            !.lenp = lenp, !.n = Len(r.data)]
    /\ UNCHANGED <<connVars, ck, dc, rf>>

SpecFixed == FixedInit /\ [][FixedRead]_vars

\* C11: a body with Content-Length: N gives, however the bytes arrive, the
\* N bytes after the header block in order and then io.EOF, and the bytes of
\* the next request stay on the stream.
C11_FixedBodyExact ==
    /\ fx.got \o fx.rest = fx.want \o fx.tail
    /\ Len(fx.got) <= Len(fx.want)
    /\ fx.n <= fx.lenp
    /\ fx.err \in {"idle", "nil", "EOF"}
    /\ (fx.err = "EOF") => (fx.got = fx.want /\ fx.rest = fx.tail)

C11_Witness ==
    /\ fx.err = "EOF" /\ fx.got = fx.want
    /\ Len(fx.want) > 1 /\ fx.tail # <<>> /\ fx.rest = fx.tail

\* C12: when the handler returned without writing a body byte and the reply
\* is complete, the connection carries one status line, a header block with
\* Content-Length: 0, the blank line and no body byte, and nothing is left
\* in conn.bufw when the loop closes or reads on.
C12_EmptyReply ==
    (Finished /\ ~hist.wroteBody) =>
        LET w == FinalReply(out.wire)
        IN  /\ Kinds(w) = <<"status", "headers", "blank">>
            /\ HeaderGet(w[2].h, "Content-Length") = <<"0">>
            /\ out.buf = <<>>

C12_Witness ==
    /\ hist.outcome = "keepalive" /\ ~hist.wroteBody /\ pc = "read"
    /\ Kinds(out.wire) = <<"status", "headers", "blank">>
    /\ out.wire[1].n = 404

\* C13: the status code of the reply is the one of the first WriteHeader made
\* before any body byte (200 without one): a second WriteHeader, and a
\* WriteHeader after a body byte was written, do not change it.
C13_StatusSetOnce ==
    /\ (hist.invoked > 0 /\ hist.outcome # "decodeErr") =>
           resp.statusCode = hist.status
    /\ Finished =>
           \A i \in 1..Len(out.wire) :
               out.wire[i].k = "status" => out.wire[i].n = hist.status

\* C14: no call of PostForm, MultipartForm or FormFile raises a fault: the
\* only faults of a handler are the ones the handler's own code raises.
C14_FormErrorsAreResults == hist.faultBy \in {"none", "handler"}

\* C15: the accessors parse the body at most once per request, and every
\* repeated call of an accessor with the same argument returns what its
\* first call returned.
C15_FormMemoized ==
    /\ hist.parses <= 1
    /\ \A c \in Calls : hist.last[c] = hist.first[c]

(***************************************************************************)
(* ReadForm and RemoveAll alone: a multipart body of up to MaxParts parts  *)
(* and the terminal delimiter is read into a form, and the form is then    *)
(* cleaned up as finishRequest does it.                                    *)
(***************************************************************************)
FormInit ==
    /\ ConnInit
    /\ ck = CkIdle
    /\ dc = DcIdle
    /\ fx = FxIdle
    /\ \E ps \in PartLists : rf = [RfIdle EXCEPT !.parts = ps, !.stage = "body"]

FormReadForm ==
    /\ rf.stage = "body"
    /\ \E f \in {ReadForm(rf.parts \o <<Terminal>>, rf.disk, 0)} :
           rf' = [rf EXCEPT !.stage = "read", !.mf = f.mf, !.err = f.err,
                            !.disk = f.disk]
    /\ UNCHANGED <<connVars, ck, dc, fx>>

FormRemoveAll ==
    /\ rf.stage = "read"
    /\ ~rf.mf.isNil
    /\ rf' = [rf EXCEPT !.stage = "removed", !.disk = RemoveAll(rf.mf, rf.disk)]
    /\ UNCHANGED <<connVars, ck, dc, fx>>

SpecForm == FormInit /\ [][FormReadForm \/ FormRemoveAll]_vars

\* The last part of the segments ps that carries form name name and is a
\* file part (file = TRUE) or a text part (file = FALSE); 0 when none does.
LastPart(ps, name, file) ==
    LET is == {i \in 1..Len(ps) :
                  /\ ps[i] # Junk
                  /\ PartOf(ps[i], i).name = name
                  /\ (PartOf(ps[i], i).filename # "") = file}
    IN  IF is = {} THEN 0 ELSE CHOOSE i \in is : \A j \in is : j <= i

\* C16: when ReadForm succeeds, each form name holds its last part, the
\* temporary files that exist are exactly the ones the form refers to (the
\* file of every replaced part was removed), and after RemoveAll none exists.
C16_LastPartWins ==
    (rf.stage \in {"read", "removed"} /\ rf.err = "nil") =>
        /\ \A k \in DOMAIN rf.mf.File :
               rf.mf.File[k].part = LastPart(rf.parts, k, TRUE)
        /\ \A k \in DOMAIN rf.mf.Value :
               rf.mf.Value[k] = LastPart(rf.parts, k, FALSE)
        /\ (rf.stage = "read") =>
               rf.disk = {rf.mf.File[k].tmpFile : k \in DOMAIN rf.mf.File} \ {0}
        /\ (rf.stage = "removed") => rf.disk = {}

\* C17: when the loop goes back to decode the next request, the reply of the
\* current one has left the write buffer and no byte of the current
\* request's body is left on the connection.
C17_NoPipelining ==
    (pc = "read" /\ hist.outcome = "keepalive") =>
        /\ out.buf = <<>>
        /\ (req.Body.kind # "eof") => (inb = <<>>)

\* C20: whenever the loop is about to decode a request, the first of the
\* connection or a later one, the limited reader allows 1 MiB.
C20_HeaderLimitEveryRequest == (pc = "read") => (lrN = lrInit)

\* The number a sequence of decimal digits writes.
RECURSIVE DecimalValue(_)
DecimalValue(cl) ==
    IF cl = <<>> THEN 0
    ELSE 10 * DecimalValue(SubSeq(cl, 1, Len(cl) - 1)) + DigitVal[cl[Len(cl)]]

IsDecimal(cl) == cl # <<>> /\ \A i \in 1..Len(cl) : cl[i] \in DOMAIN DigitVal

\* C19: the body the handler is invoked with is exhausted for a method other
\* than POST and PUT; else chunk-decoding when Transfer-Encoding is chunked,
\* whatever Content-Length says; else bounded to the decimal Content-Length;
\* else, with no Content-Length or one that is no number, exhausted.  No
\* request with a well-formed head fails to decode, whatever its
\* Content-Length.
C19_FramingSelection ==
    /\ (pc = "handler" /\ steps = 0) =>
           LET te == HeaderGet(req.Header, "Transfer-Encoding")
               cl == HeaderGet(req.Header, "Content-Length")
               carries == req.Method \in {"POST", "PUT"}
           IN  /\ ~carries => req.Body.kind = "eof"
               /\ (carries /\ te = <<"chunked">>) => req.Body.kind = "chunk"
               /\ (carries /\ te # <<"chunked">> /\ IsDecimal(cl)) =>
                      (req.Body.kind = "limit" /\ req.Body.N = DecimalValue(cl))
               /\ (carries /\ te # <<"chunked">> /\ ~IsDecimal(cl)) =>
                      req.Body.kind = "eof"
    /\ (pc = "read" /\ nreq = 0) =>
           \A m \in Requests : readRequest(m, lrN).err = "nil"

C19_Witness ==
    /\ pc = "handler" /\ steps = 0
    /\ req.Method = "POST"
    /\ HeaderGet(req.Header, "Transfer-Encoding") = <<"chunked">>
    /\ HeaderGet(req.Header, "Content-Length") = <<"1">>
    /\ req.Body.kind = "chunk"

\* C18: a reply whose handler set no Content-Length and no Transfer-Encoding
\* and wrote more body bytes than the response buffer holds, so that its
\* headers had to be finalized before the handler returned, carries
\* Transfer-Encoding: chunked, has every run of body bytes between its chunk
\* size line and a CRLF, and ends with the last chunk.
C18_ChunkedReply ==
    LET w == FinalReply(out.wire)
    IN  (/\ Finished
         /\ ~out.err
         /\ \E i \in 1..Len(w) : w[i].k = "body" /\ w[i].n > bufSize) =>
            /\ \E i \in 1..Len(w) :
                   /\ w[i].k = "headers"
                   /\ HeaderGet(w[i].h, "Transfer-Encoding") = <<"chunked">>
            /\ \A i \in 1..Len(w) :
                   w[i].k = "body" =>
                       /\ i > 1 /\ w[i - 1] = ChunkSizeLine(w[i].n)
                       /\ i < Len(w) /\ w[i + 1] = ChunkEnd
            /\ w[Len(w)] = LastChunk

\* The number of body bytes among the items.
RECURSIVE BodyBytesOn(_)
BodyBytesOn(items) ==
    IF items = <<>> THEN 0
    ELSE (IF Head(items).k = "body" THEN Head(items).n ELSE 0)
             + BodyBytesOn(Tail(items))

\* C21: the handler of the model sets no header, so a Content-Length in the
\* header block of a complete reply was set by finishRequest or by
\* finalizeHeader: its value is the number of body bytes that went on the
\* connection for that reply.
C21_ContentLengthMatches ==
    Finished =>
        LET w == FinalReply(out.wire)
        IN  \A i \in 1..Len(w) :
                (/\ w[i].k = "headers"
                 /\ HeaderGet(w[i].h, "Content-Length") # <<>>) =>
                    DecimalValue(HeaderGet(w[i].h, "Content-Length"))
                        = BodyBytesOn(w)
====
